---------------------------- MODULE Spec2Model ----------------------------
(***************************************************************************)
(* A model of Tone.js' Param (src/Tone/core/context/Param.ts): the         *)
(* automation timeline of one scalar control value.                        *)
(*                                                                         *)
(* Numbers.  A JavaScript number is modelled as an exact fraction          *)
(* [n |-> numerator, d |-> denominator] in lowest terms with d >= 0.       *)
(* d = 0 encodes the non-finite numbers: 1/0 is Infinity, -1/0 is          *)
(* -Infinity and 0/0 is NaN.  Rounding of the floating point arithmetic    *)
(* is not modelled: the operators below compute the exact result (the one  *)
(* place where rounding decides the control flow, the loop of apply, is    *)
(* modelled as a choice between the two outcomes).  A                      *)
(* result whose numerator or denominator exceeds MaxInt is Huge (d = -1),  *)
(* and a call that would leave a Huge number in the Param is not taken:    *)
(* the model covers the runs whose numbers fit.                            *)
(* Math.exp, Math.log and Math.pow have irrational results; they are       *)
(* modelled by rational approximants that agree with them where they are   *)
(* exact (exp(0) = 1, log(1) = 0, pow(x, 0) = 1, pow(x, 1) = x) and that   *)
(* keep their sign and their monotonicity.                                 *)
(*                                                                         *)
(* Specifications.  Spec: a Param of a unit without conversion or with a   *)
(* clamped range, every method.  SpecFlags: a decibels or normalRange      *)
(* Param with convert set or not, overridden set and cleared by its owner. *)
(* SpecFull: the single-step methods on a store at its capacity.           *)
(*                                                                         *)
(* Style.  An intermediate result that the code names with a const is      *)
(* passed on as the parameter of the operator that models the rest of      *)
(* the method.                                                             *)
(***************************************************************************)
EXTENDS Integers, Sequences, FiniteSets, TLC

-----------------------------------------------------------------------------
(* JavaScript numbers *)

\* the largest numerator or denominator of the model's numbers
MaxInt == 1000000000

Abs(i) == IF i < 0 THEN -i ELSE i

Sgn(i) == IF i < 0 THEN -1 ELSE IF i = 0 THEN 0 ELSE 1

RECURSIVE Gcd(_, _)
Gcd(a, b) == IF b = 0 THEN a ELSE Gcd(b, a % b)

\* a number that does not fit the model's integers
Huge == [n |-> 0, d |-> -1]

IsHuge(x) == x.d < 0

\* whether i * j fits, and whether i + j fits
FitsMul(i, j) == i = 0 \/ j = 0 \/ Abs(i) <= MaxInt \div Abs(j)

FitsAdd(i, j) == Sgn(i) # Sgn(j) \/ Abs(i) <= MaxInt - Abs(j)

\* n/d with the common divisor g > 0 taken out and the sign s of d moved up
FracBy(n, d, g, s) == [n |-> (s * n) \div g, d |-> (s * d) \div g]

\* the fraction n/d in lowest terms, d >= 0; n/0 is Infinity, -Infinity or NaN
Frac(n, d) ==
    IF d = 0 THEN [n |-> Sgn(n), d |-> 0]
    ELSE FracBy(n, d, Gcd(Abs(n), Abs(d)), Sgn(d))

Num(i) == [n |-> i, d |-> 1]

Zero == Num(0)
One == Num(1)
Two == Num(2)
NaN == [n |-> 0, d |-> 0]
Infinity == [n |-> 1, d |-> 0]
NegInfinity == [n |-> -1, d |-> 0]

\* isFinite(x)
isFinite(x) == x.d # 0

IsNaN(x) == x.d = 0 /\ x.n = 0

\* a.n * ka / (a.d * ka) + b.n * kb / (b.d * kb), the denominators equal
AddBy(a, b, ka, kb) ==
    IF FitsMul(a.n, ka) /\ FitsMul(b.n, kb) /\ FitsMul(a.d, ka)
       /\ FitsAdd(a.n * ka, b.n * kb)
    THEN Frac(a.n * ka + b.n * kb, a.d * ka)
    ELSE Huge

\* a + b  (Infinity + -Infinity is NaN)
Add(a, b) ==
    IF IsHuge(a) \/ IsHuge(b) THEN Huge
    ELSE IF a.d = 0 /\ b.d = 0 THEN (IF a = b THEN a ELSE NaN)
    ELSE IF a.d = 0 THEN a
    ELSE IF b.d = 0 THEN b
    ELSE IF a.d = b.d THEN AddBy(a, b, 1, 1)
    ELSE AddBy(a, b, b.d \div Gcd(a.d, b.d), a.d \div Gcd(a.d, b.d))

\* -a
Neg(a) == [n |-> -a.n, d |-> a.d]

\* a - b
Sub(a, b) == Add(a, Neg(b))

\* (an / ad) * (bn / bd)
MulBy(an, ad, bn, bd) ==
    IF FitsMul(an, bn) /\ FitsMul(ad, bd) THEN Frac(an * bn, ad * bd) ELSE Huge

\* a * b  (Infinity * 0 is NaN); common divisors are taken out first
Mul(a, b) ==
    IF IsHuge(a) \/ IsHuge(b) THEN Huge
    ELSE IF a.d = 0 \/ b.d = 0 THEN Frac(Sgn(a.n) * Sgn(b.n), 0)
    ELSE IF a.n = 0 \/ b.n = 0 THEN [n |-> 0, d |-> 1]
    ELSE MulBy(a.n \div Gcd(Abs(a.n), b.d), a.d \div Gcd(Abs(b.n), a.d),
               b.n \div Gcd(Abs(b.n), a.d), b.d \div Gcd(Abs(a.n), b.d))

\* 1 / a  (1 / 0 is Infinity, 1 / Infinity is 0)
Inv(a) == IF IsHuge(a) THEN Huge ELSE Frac(a.d, a.n)

\* a / b  (x / 0 is an infinity, 0 / 0 and Infinity / Infinity are NaN)
Div(a, b) == Mul(a, Inv(b))

\* an/ad < bn/bd for fractions >= 0 with ad, bd > 0, by their continued
\* fractions (no product is formed)
RECURSIVE LtPos(_, _, _, _)
LtPos(an, ad, bn, bd) ==
    IF an \div ad # bn \div bd THEN an \div ad < bn \div bd
    ELSE IF bn % bd = 0 THEN FALSE
    ELSE IF an % ad = 0 THEN TRUE
    ELSE LtPos(bd, bn % bd, ad, an % ad)

\* a < b, a <= b, a === b: false as soon as one side is NaN
Lt(a, b) ==
    IF a.d = b.d /\ a.d > 0 THEN a.n < b.n ELSE
    /\ ~IsNaN(a) /\ ~IsNaN(b) /\ ~IsHuge(a) /\ ~IsHuge(b)
    /\ IF a.d = 0 /\ b.d = 0 THEN a.n < b.n
       ELSE IF a.d = 0 THEN a.n < 0
       ELSE IF b.d = 0 THEN b.n > 0
       ELSE IF Sgn(a.n) # Sgn(b.n) THEN a.n < b.n
       ELSE IF a.n > 0 THEN LtPos(a.n, a.d, b.n, b.d)
       ELSE IF a.n < 0 THEN LtPos(-b.n, b.d, -a.n, a.d)
       ELSE FALSE

Eq(a, b) == ~IsNaN(a) /\ ~IsNaN(b) /\ a = b

Le(a, b) == IF a.d = b.d /\ a.d > 0 THEN a.n <= b.n ELSE Lt(a, b) \/ Eq(a, b)

Gt(a, b) == Lt(b, a)

Ge(a, b) == Le(b, a)

\* Math.max(a, b), Math.min(a, b): NaN as soon as one side is NaN
MathMax(a, b) ==
    IF IsHuge(a) \/ IsHuge(b) THEN Huge
    ELSE IF IsNaN(a) \/ IsNaN(b) THEN NaN ELSE IF Lt(a, b) THEN b ELSE a

MathMin(a, b) ==
    IF IsHuge(a) \/ IsHuge(b) THEN Huge
    ELSE IF IsNaN(a) \/ IsNaN(b) THEN NaN ELSE IF Lt(b, a) THEN b ELSE a

\* Math.exp(x).  For finite x >= 0 the approximant 1 + x, and 1 / (1 - x) for
\* x < 0: exact at 0, positive, strictly increasing.
MathExp(x) ==
    IF IsHuge(x) THEN Huge
    ELSE IF IsNaN(x) THEN NaN
    ELSE IF x = Infinity THEN Infinity
    ELSE IF x = NegInfinity THEN Zero
    ELSE IF x.n < 0 THEN Inv(Sub(One, x))
    ELSE Add(One, x)

\* Math.log(x).  For finite x > 0 the approximant 2(x - 1)/(x + 1): exact at 1,
\* of the sign of x - 1, strictly increasing.
MathLog(x) ==
    IF IsHuge(x) THEN Huge
    ELSE IF IsNaN(x) \/ Lt(x, Zero) THEN NaN
    ELSE IF x = Infinity THEN Infinity
    ELSE IF x = Zero THEN NegInfinity
    ELSE Div(Mul(Two, Sub(x, One)), Add(x, One))

\* Math.pow(x, y) for an exponent 0 <= y <= 1 (the only exponents
\* _exponentialInterpolate passes).  pow(x, 0) = 1 for every x, NaN included;
\* pow of a negative finite base to a fractional exponent is NaN.  For a
\* finite x > 0 and 0 < y < 1 the approximant
\* ((1 + y) x + (1 - y)) / ((1 - y) x + (1 + y)): exact at y = 0 and y = 1.
MathPow(x, y) ==
    IF IsHuge(x) \/ IsHuge(y) THEN Huge
    ELSE IF IsNaN(y) THEN NaN
    ELSE IF y = Zero THEN One
    ELSE IF IsNaN(x) THEN NaN
    ELSE IF y = One THEN x
    ELSE IF x.d = 0 THEN Infinity
    ELSE IF x.n < 0 THEN NaN
    ELSE IF x.n = 0 THEN Zero
    ELSE Div(Add(Mul(Add(One, y), x), Sub(One, y)),
             Add(Mul(Sub(One, y), x), Add(One, y)))

-----------------------------------------------------------------------------
(* Timeline<AutomationEvent>: the ordered event store *)

\* new Timeline(1000): the store's capacity
memory == 1000

\* the native context's sample period, context.sampleTime
sampleTime == Frac(1, 44100)

\* an AutomationEvent; constant is the timeConstant of a setTargetAtTime event
\* and 0 for the others
Event(type, time, value, constant) ==
    [type |-> type, time |-> time, value |-> value, constant |-> constant]

\* null, the answer of a lookup that finds no event
null == Event("null", NaN, NaN, NaN)

\* Timeline._search: the index of the last event among those at lo..hi
\* with time <= t, lo - 1 if none.  The events are in time order and the
\* search halves the range, as the store's position search does.
RECURSIVE LastLe(_, _, _, _)
LastLe(tl, t, lo, hi) ==
    IF lo > hi THEN hi
    ELSE IF Le(tl[(lo + hi) \div 2].time, t) THEN LastLe(tl, t, (lo + hi) \div 2 + 1, hi)
    ELSE LastLe(tl, t, lo, (lo + hi) \div 2 - 1)

\* the same for time < t
RECURSIVE LastLt(_, _, _, _)
LastLt(tl, t, lo, hi) ==
    IF lo > hi THEN hi
    ELSE IF Lt(tl[(lo + hi) \div 2].time, t) THEN LastLt(tl, t, (lo + hi) \div 2 + 1, hi)
    ELSE LastLt(tl, t, lo, (lo + hi) \div 2 - 1)

SearchLe(tl, t) == LastLe(tl, t, 1, Len(tl))

SearchLt(tl, t) == LastLt(tl, t, 1, Len(tl))

\* tl[i], null when i is no index of tl
At(tl, i) == IF i < 1 \/ i > Len(tl) THEN null ELSE tl[i]

\* tl with event put after its first i events
InsertAfter(tl, event, i) == SubSeq(tl, 1, i) \o <<event>> \o SubSeq(tl, i + 1, Len(tl))

\* tl with room for one more event: at capacity the oldest event is
\* discarded
Room(tl) == IF Len(tl) >= memory THEN Tail(tl) ELSE tl

\* Timeline.add: at capacity discard the oldest event first, then insert
\* after every event with time <= event.time
TimelineAdd(tl, event) ==
    InsertAfter(Room(tl), event, SearchLe(Room(tl), event.time))

\* Timeline.get: the event with the greatest time <= t, or null
TimelineGet(tl, t) == At(tl, SearchLe(tl, t))

\* Timeline.getBefore: the event with the greatest time < t, or null
TimelineGetBefore(tl, t) == At(tl, SearchLt(tl, t))

\* Timeline.getAfter: the event with the smallest time > t, or null
TimelineGetAfter(tl, t) == IF IsNaN(t) THEN null ELSE At(tl, SearchLe(tl, t) + 1)

\* Timeline.forEachAfter: the events with time > t, earliest first
TimelineForEachAfter(tl, t) ==
    IF IsNaN(t) THEN <<>> ELSE SubSeq(tl, SearchLe(tl, t) + 1, Len(tl))

\* Timeline.cancel: remove every event with time >= t
TimelineCancel(tl, t) == SubSeq(tl, 1, SearchLt(tl, t))

-----------------------------------------------------------------------------
(* Param: state *)

VARIABLES
    units,          \* Param.units, fixed at construction
    convert,        \* Param.convert
    overridden,     \* Param.overridden
    _events,        \* Param._events: the events of the timeline, in time order
    _initialValue,  \* Param._initialValue
    _param,         \* the native AudioParam: the automation schedule it holds
    call,           \* the last call of the interface: its name, arguments,
                    \* whether it threw, the commands the sink received during
                    \* it, its validations, store and sink steps in order, and
                    \* the fields _events and _initialValue as it found them;
                    \* for a call that reads, what it returned as well
    nops            \* the number of calls made, a call of a method that
                    \* schedules through other methods counting for two

vars == <<units, convert, overridden, _events, _initialValue, _param, call, nops>>

\* bounds of the model
MaxOps == 3
MaxTime == 2

\* Param._minOutput = 1e-7
_minOutput == Frac(1, 10000000)

-----------------------------------------------------------------------------
(* Param: conversions *)

\* ToneWithContext.toSeconds of a time given as a number of seconds
toSeconds(time) == time

\* Conversions.dbToGain: Math.pow(10, db / 20).  For a finite db >= 0 the
\* approximant 1 + db / 8, and 1 / (1 - db / 8) for db < 0: exact at 0 dB,
\* positive, strictly increasing.
dbToGain(db) == MathExp(Div(db, Num(8)))

\* Conversions.gainToDb: 20 * (Math.log(gain) / Math.LN10).  For a finite
\* gain > 0 the inverse of the approximant of dbToGain.
gainToDb(gain) ==
    IF IsHuge(gain) THEN Huge
    ELSE IF IsNaN(gain) \/ Lt(gain, Zero) THEN NaN
    ELSE IF gain = Infinity THEN Infinity
    ELSE IF gain = Zero THEN NegInfinity
    ELSE IF Ge(gain, One) THEN Mul(Num(8), Sub(gain, One))
    ELSE Mul(Num(8), Sub(One, Inv(gain)))

\* Param._fromType
_fromType(val) ==
    IF convert /\ ~overridden THEN
        IF units = "decibels" THEN dbToGain(val)
        ELSE IF units = "normalRange" THEN MathMin(MathMax(val, Zero), One)
        ELSE IF units = "audioRange" THEN MathMin(MathMax(val, Neg(One)), One)
        ELSE IF units = "positive" THEN MathMax(val, Zero)
        ELSE val
    ELSE val

\* a variant of _toType that converts only while the Param is not
\* overridden, as _fromType does; with it C16 holds
_toTypeUnlessOverridden(val) ==
    IF convert /\ ~overridden /\ units = "decibels" THEN gainToDb(val) ELSE val

\* Param._toType
_toType(val) ==
    IF convert /\ units = "decibels" THEN gainToDb(val) ELSE val

-----------------------------------------------------------------------------
(* Param: curve calculations *)

_exponentialApproach(t0, v0, v1, timeConstant, t) ==
    Add(v1, Mul(Sub(v0, v1), MathExp(Div(Neg(Sub(t, t0)), timeConstant))))

\* a variant of _linearInterpolate that measures the time from 0 instead of
\* t0; C8 tells the two apart
_linearInterpolateFromOrigin(t0, v0, t1, v1, t) ==
    Add(v0, Mul(Sub(v1, v0), Div(t, t1)))

_linearInterpolate(t0, v0, t1, v1, t) ==
    Add(v0, Mul(Sub(v1, v0), Div(Sub(t, t0), Sub(t1, t0))))

_exponentialInterpolate(t0, v0, t1, v1, t) ==
    Mul(v0, MathPow(Div(v1, v0), Div(Sub(t, t0), Sub(t1, t0))))

-----------------------------------------------------------------------------
(* Param: the interface.  Each operation maps the Param p, a record            *)
(*   events, initialValue : the fields _events and _initialValue               *)
(*   cmds   : the commands the sink received since the call began              *)
(*   trace  : the validations, store mutations and sink commands of the call   *)
(*   threw  : an assertion failed; the rest of the call does not run           *)
(* to the Param after it.                                                      *)

This ==
    [events |-> _events, initialValue |-> _initialValue,
     cmds |-> <<>>, trace |-> <<>>, threw |-> FALSE]

Step(p, step, type, time) ==
    [p EXCEPT !.trace = Append(@, [step |-> step, type |-> type, time |-> time])]

\* a variant of this._events.add(event) that puts the event last in the
\* store, whatever its time; C20 tells the two apart
EventsAddLast(p, event) ==
    Step([p EXCEPT !.events = Append(Room(@), event)], "store", event.type, event.time)

\* this._events.add(event)
EventsAdd(p, event) ==
    Step([p EXCEPT !.events = TimelineAdd(@, event)], "store", event.type, event.time)

\* this._events.cancel(time)
EventsCancel(p, time) ==
    Step([p EXCEPT !.events = TimelineCancel(@, time)], "store", "cancelScheduledValues", time)

\* this._param.<type>(value, time [, constant])
ParamCall(p, cmd) ==
    Step([p EXCEPT !.cmds = Append(@, cmd)], "sink", cmd.type, cmd.time)

\* this._param.cancelScheduledValues(time)
CancelCommand(time) == Event("cancelScheduledValues", time, Zero, Zero)

\* getValueAtTime: previousVal, previous being getBefore(before.time)
PreviousVal(p, previous) ==
    IF previous = null THEN p.initialValue ELSE previous.value

\* getValueAtTime: the interpolation towards the ramp `after`
RampValue(after, beforeTime, beforeValue, computedTime) ==
    IF after.type = "linearRampToValueAtTime"
    THEN _linearInterpolate(beforeTime, beforeValue, after.time, after.value, computedTime)
    ELSE _exponentialInterpolate(beforeTime, beforeValue, after.time, after.value, computedTime)

\* a variant of ValueBetween that answers with the value of the event after
\* when there is no event before; C9 tells the two apart
ValueBetweenOrAfter(p, computedTime, after, before) ==
    IF before = null
    THEN IF after = null THEN p.initialValue ELSE after.value
    ELSE IF after = null \/ ~(after.type \in {"linearRampToValueAtTime",
                                               "exponentialRampToValueAtTime"})
    THEN before.value
    ELSE RampValue(after, before.time, before.value, computedTime)

\* getValueAtTime: the value between the events before and after
ValueBetween(p, computedTime, after, before) ==
    IF before = null THEN p.initialValue
    ELSE IF before.type = "setTargetAtTime"
            /\ (after = null \/ after.type = "setValueAtTime")
    THEN _exponentialApproach(before.time,
                              PreviousVal(p, TimelineGetBefore(p.events, before.time)),
                              before.value, before.constant, computedTime)
    ELSE IF after = null THEN before.value
    ELSE IF after.type \in {"linearRampToValueAtTime", "exponentialRampToValueAtTime"}
    THEN RampValue(after, before.time,
                   IF before.type = "setTargetAtTime"
                   THEN PreviousVal(p, TimelineGetBefore(p.events, before.time))
                   ELSE before.value,
                   computedTime)
    ELSE before.value

\* getValueAtTime: the value at computedTime, in the sink's domain
ValueAt(p, computedTime) ==
    ValueBetween(p, computedTime, TimelineGetAfter(p.events, computedTime),
                 TimelineGet(p.events, computedTime))

getValueAtTime(p, time) == _toType(ValueAt(p, MathMax(toSeconds(time), Zero)))

\* the body shared by setValueAtTime and the two ramps, the arguments
\* converted: assert they are finite, add the event, call the sink
Schedule(p, type, numericValue, computedTime) ==
    IF isFinite(numericValue) /\ isFinite(computedTime)
    THEN ParamCall(EventsAdd(Step(p, "validate", type, computedTime),
                             Event(type, computedTime, numericValue, Zero)),
                   Event(type, computedTime, numericValue, Zero))
    ELSE [p EXCEPT !.threw = TRUE]

\* a variant of setValueAtTime that raises the value to _minOutput as
\* exponentialRampToValueAtTime does; C2 tells the two apart
setValueAtTimeFloored(p, value, time) ==
    IF p.threw THEN p
    ELSE Schedule(p, "setValueAtTime", MathMax(_minOutput, _fromType(value)),
                  toSeconds(time))

setValueAtTime(p, value, time) ==
    IF p.threw THEN p
    ELSE Schedule(p, "setValueAtTime", _fromType(value), toSeconds(time))

linearRampToValueAtTime(p, value, endTime) ==
    IF p.threw THEN p
    ELSE Schedule(p, "linearRampToValueAtTime", _fromType(value), toSeconds(endTime))

\* a variant of exponentialRampToValueAtTime that records the value as it
\* is, below _minOutput or not; C11 tells the two apart
exponentialRampToValueAtTimeUnfloored(p, value, endTime) ==
    IF p.threw THEN p
    ELSE Schedule(p, "exponentialRampToValueAtTime", _fromType(value), toSeconds(endTime))

exponentialRampToValueAtTime(p, value, endTime) ==
    IF p.threw THEN p
    ELSE Schedule(p, "exponentialRampToValueAtTime",
                  MathMax(_minOutput, _fromType(value)), toSeconds(endTime))

\* a variant of ScheduleTarget that calls the sink before it adds the event;
\* C5 tells the two apart
ScheduleTargetSinkFirst(p, numericValue, computedTime, timeConstant) ==
    IF isFinite(numericValue) /\ isFinite(computedTime)
    THEN EventsAdd(ParamCall(Step(p, "validate", "setTargetAtTime", computedTime),
                             Event("setTargetAtTime", computedTime, numericValue, timeConstant)),
                   Event("setTargetAtTime", computedTime, numericValue, timeConstant))
    ELSE [p EXCEPT !.threw = TRUE]

\* setTargetAtTime after its first assertion
ScheduleTarget(p, numericValue, computedTime, timeConstant) ==
    IF isFinite(numericValue) /\ isFinite(computedTime)
    THEN ParamCall(EventsAdd(Step(p, "validate", "setTargetAtTime", computedTime),
                             Event("setTargetAtTime", computedTime, numericValue, timeConstant)),
                   Event("setTargetAtTime", computedTime, numericValue, timeConstant))
    ELSE [p EXCEPT !.threw = TRUE]

\* a variant of setTargetAtTime that lets the time constant 0 pass; C18
\* tells the two apart
setTargetAtTimeFromZero(p, value, startTime, timeConstant) ==
    IF p.threw THEN p
    ELSE IF isFinite(timeConstant) /\ Ge(timeConstant, Zero)
    THEN ScheduleTarget(Step(p, "validate", "timeConstant", timeConstant),
                        _fromType(value), toSeconds(startTime), timeConstant)
    ELSE [p EXCEPT !.threw = TRUE]

setTargetAtTime(p, value, startTime, timeConstant) ==
    IF p.threw THEN p
    ELSE IF isFinite(timeConstant) /\ Gt(timeConstant, Zero)
    THEN ScheduleTarget(Step(p, "validate", "timeConstant", timeConstant),
                        _fromType(value), toSeconds(startTime), timeConstant)
    ELSE [p EXCEPT !.threw = TRUE]

\* a variant of cancelScheduledValues that keeps the events at the time
\* itself; C3 tells the two apart
cancelScheduledValuesAfter(p, time) ==
    IF p.threw THEN p
    ELSE IF isFinite(toSeconds(time))
    THEN ParamCall(EventsCancel(Step(p, "validate", "cancelScheduledValues", toSeconds(time)),
                                Add(toSeconds(time), sampleTime)),
                   CancelCommand(Add(toSeconds(time), sampleTime)))
    ELSE [p EXCEPT !.threw = TRUE]

cancelScheduledValues(p, time) ==
    IF p.threw THEN p
    ELSE IF isFinite(toSeconds(time))
    THEN ParamCall(EventsCancel(Step(p, "validate", "cancelScheduledValues", toSeconds(time)),
                                toSeconds(time)),
                   CancelCommand(toSeconds(time)))
    ELSE [p EXCEPT !.threw = TRUE]

\* cancelAndHoldAtTime: the ramp that ends at computedTime in place of the
\* cancelled ramp `after`
HoldRamp(p, after, valueAtTime, computedTime) ==
    IF after.type = "linearRampToValueAtTime"
    THEN linearRampToValueAtTime(p, _toType(valueAtTime), computedTime)
    ELSE IF after.type = "exponentialRampToValueAtTime"
    THEN exponentialRampToValueAtTime(p, _toType(valueAtTime), computedTime)
    ELSE p

\* a variant of HoldCancel that removes the event at computedTime with the
\* events after it; C7 tells the two apart
HoldCancelFrom(p, computedTime, valueAtTime, before, after) ==
    IF before # null /\ Eq(before.time, computedTime)
    THEN EventsCancel(p, computedTime)
    ELSE IF after # null
    THEN HoldRamp(EventsCancel(p, after.time), after, valueAtTime, computedTime)
    ELSE p

\* cancelAndHoldAtTime: the removal of the events after computedTime
HoldCancel(p, computedTime, valueAtTime, before, after) ==
    IF before # null /\ Eq(before.time, computedTime)
    THEN IF after # null THEN EventsCancel(p, after.time)
         ELSE EventsCancel(p, Add(computedTime, sampleTime))
    ELSE IF after # null
    THEN HoldRamp(EventsCancel(p, after.time), after, valueAtTime, computedTime)
    ELSE p

\* cancelAndHoldAtTime: set the value at the given time
HoldSet(p, computedTime, valueAtTime) ==
    IF p.threw THEN p
    ELSE ParamCall(EventsAdd(p, Event("setValueAtTime", computedTime, valueAtTime, Zero)),
                   Event("setValueAtTime", computedTime, valueAtTime, Zero))

\* cancelAndHoldAtTime once computedTime and valueAtTime are known
HoldAt(p, computedTime, valueAtTime) ==
    IF isFinite(computedTime)
    THEN HoldSet(HoldCancel(ParamCall(Step(p, "validate", "cancelAndHoldAtTime", computedTime),
                                      CancelCommand(computedTime)),
                            computedTime, valueAtTime,
                            TimelineGet(p.events, computedTime),
                            TimelineGetAfter(p.events, computedTime)),
                 computedTime, valueAtTime)
    ELSE [p EXCEPT !.threw = TRUE]

cancelAndHoldAtTime(p, time) ==
    IF p.threw THEN p
    ELSE HoldAt(p, toSeconds(time), _fromType(getValueAtTime(p, toSeconds(time))))

\* a variant of RampPoint that keeps a value of 0; C10 tells the two apart
RampPointKeepZero(p1, currentVal, time) == setValueAtTime(p1, currentVal, time)

\* setRampPoint after cancelAndHoldAtTime, p1 being the Param it left
RampPoint(p1, currentVal, time) ==
    setValueAtTime(p1,
                   IF Eq(_fromType(currentVal), Zero) THEN _toType(_minOutput)
                   ELSE currentVal,
                   time)

setRampPoint(p, time) ==
    IF p.threw THEN p
    ELSE RampPoint(cancelAndHoldAtTime(p, toSeconds(time)),
                   getValueAtTime(p, toSeconds(time)), toSeconds(time))

exponentialRampTo(p, value, rampTime, startTime) ==
    exponentialRampToValueAtTime(setRampPoint(p, toSeconds(startTime)), value,
                                 Add(toSeconds(startTime), toSeconds(rampTime)))

linearRampTo(p, value, rampTime, startTime) ==
    linearRampToValueAtTime(setRampPoint(p, toSeconds(startTime)), value,
                            Add(toSeconds(startTime), toSeconds(rampTime)))

\* exponentialApproachValueAtTime: Math.log(rampTime + 1) / Math.log(200)
TimeConstantOf(rampTime) == Div(MathLog(Add(rampTime, One)), MathLog(Num(200)))

\* a variant of exponentialApproachValueAtTime without the hold at 90%: what
\* was scheduled after time stays; C15 tells the two apart
exponentialApproachValueAtTimeUnheld(p, value, time, rampTime) ==
    linearRampToValueAtTime(
        setTargetAtTime(p, value, toSeconds(time), TimeConstantOf(toSeconds(rampTime))),
        value, Add(toSeconds(time), toSeconds(rampTime)))

exponentialApproachValueAtTime(p, value, time, rampTime) ==
    linearRampToValueAtTime(
        \* at 90% start a linear ramp to the final value
        cancelAndHoldAtTime(
            setTargetAtTime(p, value, toSeconds(time), TimeConstantOf(toSeconds(rampTime))),
            Add(toSeconds(time), Mul(toSeconds(rampTime), Frac(9, 10)))),
        value, Add(toSeconds(time), toSeconds(rampTime)))

targetRampTo(p, value, rampTime, startTime) ==
    exponentialApproachValueAtTime(setRampPoint(p, toSeconds(startTime)), value,
                                   toSeconds(startTime), rampTime)

\* the loop of setValueCurveAtTime, from sample i (counted from 0) on
RECURSIVE CurveRamps(_, _, _, _, _, _)
CurveRamps(p, values, startTime, segTime, scaling, i) ==
    IF i >= Len(values) THEN p
    ELSE CurveRamps(linearRampToValueAtTime(p,
                        _toType(Mul(_fromType(values[i + 1]), scaling)),
                        Add(startTime, Mul(Num(i), segTime))),
                    values, startTime, segTime, scaling, i + 1)

\* a variant of setValueCurveAtTime with one segment per sample, the last
\* ramp ending before startTime + duration; C14 tells the two apart
setValueCurveAtTimePerSample(p, values, startTime, duration, scaling) ==
    CurveRamps(setValueAtTime(p, _toType(Mul(_fromType(values[1]), scaling)),
                              toSeconds(startTime)),
               values, toSeconds(startTime),
               Div(toSeconds(duration), Num(Len(values))), scaling, 1)

setValueCurveAtTime(p, values, startTime, duration, scaling) ==
    CurveRamps(setValueAtTime(p, _toType(Mul(_fromType(values[1]), scaling)),
                              toSeconds(startTime)),
               values, toSeconds(startTime),
               Div(toSeconds(duration), Num(Len(values) - 1)), scaling, 1)

\* a variant of the setter that cancels nothing; C13 tells the two apart
SetValuePropertyKeeping(p, value, now1, now2) ==
    setValueAtTime([p EXCEPT !.initialValue = _fromType(value)], value, now2)

\* set value(value), the clock reading now1 and then now2
SetValueProperty(p, value, now1, now2) ==
    setValueAtTime(cancelScheduledValues([p EXCEPT !.initialValue = _fromType(value)],
                                         now1),
                   value, now2)

-----------------------------------------------------------------------------
(* Param: apply *)

\* the end of the approximated decay: the time of the event after
\* previousEvent, now + 2 where there is none
ApplyEndTime(p, now, previousEvent) ==
    IF TimelineGetAfter(p.events, previousEvent.time) = null THEN Add(now, Two)
    ELSE TimelineGetAfter(p.events, previousEvent.time).time

\* the command of the step that finds i = now + k * subdivisions
ApplyStep(p, now, endTime, k) ==
    Event("linearRampToValueAtTime",
          Add(now, Mul(Num(k), Div(Sub(endTime, now), Num(10)))),
          getValueAtTime(p, Add(now, Mul(Num(k), Div(Sub(endTime, now), Num(10))))),
          Zero)

\* for (let i = now; i < endTime; i += subdivisions): i is a sum of doubles,
\* rounded at each addition.  After nine additions it is below endTime; after
\* ten it is endTime but for the rounding, and the test i < endTime holds
\* once more when it was rounded below (now = 0, endTime = 2: the sum is
\* 1.9999999999999998).
ApplySteps(p, now, endTime, below) ==
    [k \in 1..(IF below THEN 11 ELSE 10) |-> ApplyStep(p, now, endTime, k - 1)]

\* the approximation of the decay, when the event in effect at now is a
\* TargetApproach
ApplyDecay(p, now, previousEvent, below) ==
    IF previousEvent # null /\ previousEvent.type = "setTargetAtTime"
    THEN ApplySteps(p, now, ApplyEndTime(p, now, previousEvent), below)
    ELSE <<>>

\* Param.apply(param) with context.currentTime = now: the commands param is
\* called with, in order.  Every event of the store is of one of the four
\* scheduling types, and is passed on with its own fields.
apply(p, now, below) ==
    <<Event("setValueAtTime", now, getValueAtTime(p, now), Zero)>>
        \o ApplyDecay(p, now, TimelineGet(p.events, now), below)
        \o TimelineForEachAfter(p.events, now)
-----------------------------------------------------------------------------
(* The native AudioParam, seen as the schedule its commands build *)

\* the schedule after one command: cancelScheduledValues(t) removes every
\* event with time >= t, every other command adds its event
SinkCommand(sched, cmd) ==
    IF cmd.type = "cancelScheduledValues" THEN TimelineCancel(sched, cmd.time)
    ELSE InsertAfter(sched, cmd, SearchLe(sched, cmd.time))

RECURSIVE SinkRun(_, _)
SinkRun(sched, cmds) ==
    IF cmds = <<>> THEN sched
    ELSE SinkRun(SinkCommand(sched, Head(cmds)), Tail(cmds))

-----------------------------------------------------------------------------
(* The state machine *)

\* the arguments the calls are made with: a value and a time, one of them
\* at most not finite, and the time negative for one of them
Values == {Zero, Two}
Times == {Num(i) : i \in 0..MaxTime}
ValueTimes ==
    (Values \X Times) \cup {<<Two, Num(-1)>>, <<NaN, Zero>>, <<Two, NaN>>}
AllValues == Values \cup {NaN}
AllTimes == Times \cup {Num(-1), NaN}
UnitNames == {"number", "normalRange"}
TimeConstants == {One}
RampTimes == {Zero, One}
StartTimes == {Zero, One}
ApproachTimes == {Zero, One, Two}
Curves == {<<Zero, One>>, <<One, NaN>>, <<Zero, One, Zero>>}
Scalings == {One, Two}
Nows == {Zero, One}

\* the times getValueAtTime is called with
GetTimes == {Frac(1, 2), Num(-1)}

\* the times the value is queried at
QueryTimes == {Frac(i, 2) : i \in -2..(2 * MaxTime + 2)}

\* the record of the construction: no call of the interface made yet
NoCall(initialValue) ==
    [op |-> "new", args |-> <<>>, threw |-> FALSE, cmds |-> <<>>, trace |-> <<>>,
     pre |-> [events |-> <<>>, initialValue |-> initialValue]]

\* after new Param({param, units}): no event, the sink's default value
Init ==
    /\ units \in UnitNames
    /\ convert = TRUE
    /\ overridden = FALSE
    /\ _events = <<>>
    /\ _initialValue \in {Zero, One}
    /\ _param = <<>>
    /\ call = NoCall(_initialValue)
    /\ nops = 0

\* no number of the Param q is Huge
InRange(q) ==
    /\ ~IsHuge(q.initialValue)
    /\ \A i \in 1..Len(q.events) :
          ~IsHuge(q.events[i].time) /\ ~IsHuge(q.events[i].value)
          /\ ~IsHuge(q.events[i].constant)
    /\ \A i \in 1..Len(q.cmds) :
          ~IsHuge(q.cmds[i].time) /\ ~IsHuge(q.cmds[i].value)
          /\ ~IsHuge(q.cmds[i].constant)

\* one call of the interface, leaving the Param as result.  A call of a
\* method that schedules by calling other methods counts for two.
Call(op, args, cost, result) ==
    /\ nops + cost <= MaxOps
    /\ \E q \in {result} :
        /\ InRange(q) = TRUE
        /\ _events' = q.events
        /\ _initialValue' = q.initialValue
        /\ _param' = SinkRun(_param, q.cmds)
        /\ call' = [op |-> op, args |-> args, threw |-> q.threw,
                    cmds |-> q.cmds, trace |-> q.trace,
                    pre |-> [events |-> _events, initialValue |-> _initialValue]]
        /\ nops' = nops + cost
        /\ UNCHANGED <<units, convert, overridden>>

\* a variant of a reading call that leaves the value at the time read as
\* the initialValue; C12 tells the two apart
ReadAssigning(op, args, value) ==
    /\ nops + 1 <= MaxOps
    /\ call' = [op |-> op, args |-> args, threw |-> FALSE, cmds |-> <<>>,
                trace |-> <<>>, result |-> value,
                again |-> (call.op = op /\ call.args = args),
                last |-> IF call.op = op /\ call.args = args THEN call.result ELSE value,
                pre |-> [events |-> _events, initialValue |-> _initialValue,
                         param |-> _param,
                         flags |-> <<units, convert, overridden>>]]
    /\ nops' = nops + 1
    /\ _initialValue' = getValueAtTime(This, args[1])
    /\ UNCHANGED <<units, convert, overridden, _events, _param>>

\* one call of a method that reads: it returns value.  The code of the
\* method assigns no field, adds or removes no event and calls no method of
\* the sink.  The record keeps what the Param was before the call, and what
\* the call before returned if it was the same call.
Read(op, args, value) ==
    /\ nops + 1 <= MaxOps
    /\ call' = [op |-> op, args |-> args, threw |-> FALSE, cmds |-> <<>>,
                trace |-> <<>>, result |-> value,
                again |-> (call.op = op /\ call.args = args),
                last |-> IF call.op = op /\ call.args = args THEN call.result ELSE value,
                pre |-> [events |-> _events, initialValue |-> _initialValue,
                         param |-> _param,
                         flags |-> <<units, convert, overridden>>]]
    /\ nops' = nops + 1
    /\ UNCHANGED <<units, convert, overridden, _events, _initialValue, _param>>

GetValueAtTime ==
    \E t \in GetTimes : Read("getValueAtTime", <<t>>, getValueAtTime(This, t))

\* get value(): the value at now
GetValue ==
    \E now \in Nows : Read("get value", <<now>>, getValueAtTime(This, now))

\* apply(param): what the call returns here is the list of the commands
\* param received; the sum of the ten subdivisions is rounded below endTime
\* or not
Apply ==
    \E now \in Nows, below \in BOOLEAN :
        Read("apply", <<now>>, apply(This, now, below))

SetValueAtTime ==
    \E a \in ValueTimes :
        Call("setValueAtTime", a, 1, setValueAtTime(This, a[1], a[2]))

LinearRampToValueAtTime ==
    \E a \in ValueTimes :
        Call("linearRampToValueAtTime", a, 1, linearRampToValueAtTime(This, a[1], a[2]))

\* the value may also be below 0
ExponentialRampToValueAtTime ==
    \E a \in ValueTimes \cup {<<Num(-1), One>>} :
        Call("exponentialRampToValueAtTime", a, 1,
             exponentialRampToValueAtTime(This, a[1], a[2]))

SetTargetAtTime ==
    \E a \in (ValueTimes \X TimeConstants)
               \cup ({<<Two, Zero>>} \X {Zero, NaN, Num(-1), Infinity}) :
        Call("setTargetAtTime", <<a[1][1], a[1][2], a[2]>>, 1,
             setTargetAtTime(This, a[1][1], a[1][2], a[2]))

CancelScheduledValues ==
    \E t \in AllTimes :
        Call("cancelScheduledValues", <<t>>, 1, cancelScheduledValues(This, t))

CancelAndHoldAtTime ==
    \E t \in AllTimes :
        Call("cancelAndHoldAtTime", <<t>>, 1, cancelAndHoldAtTime(This, t))

SetRampPoint ==
    \E t \in AllTimes : Call("setRampPoint", <<t>>, 2, setRampPoint(This, t))

LinearRampTo ==
    \E v \in AllValues, r \in RampTimes, s \in StartTimes :
        Call("linearRampTo", <<v, r, s>>, 2, linearRampTo(This, v, r, s))

ExponentialRampTo ==
    \E v \in AllValues, r \in RampTimes, s \in StartTimes :
        Call("exponentialRampTo", <<v, r, s>>, 2, exponentialRampTo(This, v, r, s))

ExponentialApproachValueAtTime ==
    \E v \in AllValues, t \in StartTimes, r \in ApproachTimes :
        Call("exponentialApproachValueAtTime", <<v, t, r>>, 2,
             exponentialApproachValueAtTime(This, v, t, r))

TargetRampTo ==
    \E v \in AllValues, r \in RampTimes, s \in StartTimes :
        Call("targetRampTo", <<v, r, s>>, 2, targetRampTo(This, v, r, s))

\* the samples, then startTime, duration and scaling
SetValueCurveAtTime ==
    \E c \in Curves, s \in StartTimes, k \in Scalings :
        Call("setValueCurveAtTime", c \o <<s, Two, k>>, 2,
             setValueCurveAtTime(This, c, s, Two, k))

\* set value(v); the clock reads now1, then now2 >= now1
SetValue ==
    \E v \in AllValues, now1 \in Nows, now2 \in Nows :
        /\ Le(now1, now2)
        /\ Call("value", <<v, now1, now2>>, 2, SetValueProperty(This, v, now1, now2))

Next ==
    \/ GetValueAtTime
    \/ GetValue
    \/ Apply
    \/ SetValueAtTime
    \/ LinearRampToValueAtTime
    \/ ExponentialRampToValueAtTime
    \/ SetTargetAtTime
    \/ CancelScheduledValues
    \/ CancelAndHoldAtTime
    \/ SetRampPoint
    \/ LinearRampTo
    \/ ExponentialRampTo
    \/ ExponentialApproachValueAtTime
    \/ TargetRampTo
    \/ SetValueCurveAtTime
    \/ SetValue

Spec == Init /\ [][Next]_vars

-----------------------------------------------------------------------------
(* The state machine with the flags: a Param of a converting unit, made
   with convert set or not, whose owner sets and clears overridden *)

FlagUnitNames == {"decibels", "normalRange"}

InitFlags ==
    /\ units \in FlagUnitNames
    /\ convert \in BOOLEAN
    /\ overridden = FALSE
    /\ _events = <<>>
    /\ _initialValue \in {Zero, One}
    /\ _param = <<>>
    /\ call = NoCall(_initialValue)
    /\ nops = 0

\* param.overridden = b, an assignment of the public field
SetOverridden ==
    \E b \in BOOLEAN :
        /\ b # overridden
        /\ nops + 1 <= MaxOps
        /\ overridden' = b
        /\ call' = [op |-> "overridden", args |-> <<b>>, threw |-> FALSE,
                    cmds |-> <<>>, trace |-> <<>>,
                    pre |-> [events |-> _events, initialValue |-> _initialValue]]
        /\ nops' = nops + 1
        /\ UNCHANGED <<units, convert, _events, _initialValue, _param>>

NextFlags ==
    \/ SetOverridden
    \/ GetValueAtTime
    \/ GetValue
    \/ SetValueAtTime
    \/ LinearRampToValueAtTime
    \/ ExponentialRampToValueAtTime
    \/ SetTargetAtTime
    \/ CancelScheduledValues
    \/ CancelAndHoldAtTime

SpecFlags == InitFlags /\ [][NextFlags]_vars

-----------------------------------------------------------------------------
(* The state machine from a store at its capacity: a Param after `memory`
   calls of setValueAtTime(1, 0), or a new one, and the six single-step
   scheduling methods *)

FullStore == [i \in 1..memory |-> Event("setValueAtTime", Zero, One, Zero)]

\* the Param after the calls that filled the store, counted as one
InitFull ==
    /\ units = "number"
    /\ convert = TRUE
    /\ overridden = FALSE
    /\ _events \in {<<>>, FullStore}
    /\ _initialValue = Zero
    /\ _param = _events
    /\ call = NoCall(_initialValue)
    /\ nops = 1

NextFull ==
    \/ SetValueAtTime
    \/ LinearRampToValueAtTime
    \/ ExponentialRampToValueAtTime
    \/ SetTargetAtTime
    \/ CancelScheduledValues
    \/ CancelAndHoldAtTime

SpecFull == InitFull /\ [][NextFull]_vars
-----------------------------------------------------------------------------
(* Properties of the Param.  `call` describes the last call made: the state  *)
(* is the one the call left, call.pre the store it found.                    *)

\* the answer of getValueAtTime(t) in this state
Value(t) == getValueAtTime(This, t)

\* the answer getValueAtTime(t) had before the last call
ValueBefore(t) ==
    getValueAtTime([This EXCEPT !.events = call.pre.events,
                                !.initialValue = call.pre.initialValue], t)

\* a and b are the same number (or both NaN); granted where the arithmetic of
\* the model went out of its range
SameValue(a, b) == IsHuge(a) \/ IsHuge(b) \/ a = b

\* the last call was of the method op and returned
Made(op) == call.op = op /\ ~call.threw

\* some event of the store tl has time t
HasEventAt(tl, t) == \E i \in 1..Len(tl) : Eq(tl[i].time, t)

IsRamp(event) ==
    event.type \in {"linearRampToValueAtTime", "exponentialRampToValueAtTime"}

\* the time of the earliest event of the store later than t
NextEventTime(t) ==
    IF TimelineGetAfter(_events, t) = null THEN Infinity
    ELSE TimelineGetAfter(_events, t).time

-----------------------------------------------------------------------------
\* C1: for every finite t, cancelAndHoldAtTime(t) leaves getValueAtTime(t)
\* equal to what it was before the call, and afterwards the store holds no
\* event with time greater than t.
C1_HoldLeavesValue ==
    (call.op = "cancelAndHoldAtTime" /\ isFinite(call.args[1])) =>
        /\ SameValue(Value(call.args[1]), ValueBefore(call.args[1]))
        /\ \A i \in 1..Len(_events) : ~Gt(_events[i].time, call.args[1])

\* C1, what the code keeps of it: a call cancelAndHoldAtTime(t) that returns
\* leaves getValueAtTime(t) as it was and no event later than t, and a call
\* with a finite t throws only where getValueAtTime(t) was NaN.
C1_HoldLeavesValueWhenReturns ==
    (call.op = "cancelAndHoldAtTime" /\ isFinite(call.args[1])) =>
        /\ \A i \in 1..Len(_events) : ~Gt(_events[i].time, call.args[1])
        /\ ~call.threw => SameValue(Value(call.args[1]), ValueBefore(call.args[1]))
        /\ call.threw => IsNaN(ValueBefore(call.args[1]))

-----------------------------------------------------------------------------
\* C2 as stated: after setValueAtTime(v, t), getValueAtTime(t) = v and
\* getValueAtTime(t') = v for every t' with t <= t' < nextEventTime, whatever
\* the kind of the next event.
C2_SetValueHoldsUntilNextEvent ==
    Made("setValueAtTime") =>
        \A q \in QueryTimes \cup {call.args[2]} :
            (Le(call.args[2], q) /\ Lt(q, NextEventTime(call.args[2])))
                => SameValue(Value(q), call.args[1])

\* C2 amended: after setValueAtTime(v, t), getValueAtTime(t') is v converted
\* to the sink's domain and back, for t' = t >= 0 and for every t' >= 0 with
\* t <= t' < nextEventTime when the next event is not a ramp.
C2_SetValueHoldsUntilRamp ==
    Made("setValueAtTime") =>
        \A q \in QueryTimes \cup {call.args[2]} :
            (/\ Ge(q, Zero)
             /\ Le(call.args[2], q) /\ Lt(q, NextEventTime(call.args[2]))
             /\ (q = call.args[2] \/ ~IsRamp(TimelineGetAfter(_events, call.args[2]))))
                => SameValue(Value(q), _toType(_fromType(call.args[1])))

\* setValueAtTime(v, t) returned with v outside the unit's range, a later
\* TargetApproach in the store and a query time between the two
C2_Witness ==
    /\ Made("setValueAtTime")
    /\ call.args[1] # _fromType(call.args[1])
    /\ TimelineGetAfter(_events, call.args[2]).type = "setTargetAtTime"
    /\ \E q \in QueryTimes :
          Lt(call.args[2], q) /\ Lt(q, NextEventTime(call.args[2])) /\ Ge(q, Zero)

-----------------------------------------------------------------------------
\* the value getValueAtTime answers with at t, no event of the store being
\* later than t: the value of the latest event, or for a TargetApproach the
\* approach from the value before it
HeldValue(last, t) ==
    IF last = null THEN _initialValue
    ELSE IF last.type = "setTargetAtTime"
    THEN _exponentialApproach(last.time,
                              PreviousVal(This, TimelineGetBefore(_events, last.time)),
                              last.value, last.constant, MathMax(t, Zero))
    ELSE last.value

\* C3 as stated: after cancelScheduledValues(t) the store holds no event with
\* time >= t, and for every t' >= t getValueAtTime(t') is the value field of
\* the latest remaining event (initialValue when none remains), a
\* TargetApproach included.
C3_CancelLeavesLastValue ==
    Made("cancelScheduledValues") =>
        /\ \A i \in 1..Len(_events) : Lt(_events[i].time, call.args[1])
        /\ \A q \in QueryTimes :
              Ge(q, call.args[1]) =>
                  SameValue(Value(q),
                            _toType(IF _events = <<>> THEN _initialValue
                                    ELSE _events[Len(_events)].value))

\* C3 amended: after cancelScheduledValues(t) the store holds no event with
\* time >= t, and for every t' >= t getValueAtTime(t') is the value field of
\* the latest remaining event (initialValue when none remains) unless that
\* event is a TargetApproach, when it is the exponential approach at t' from
\* the value of the event before it towards its value field.
C3_CancelLeavesHeldValue ==
    Made("cancelScheduledValues") =>
        /\ \A i \in 1..Len(_events) : Lt(_events[i].time, call.args[1])
        /\ \A q \in QueryTimes :
              Ge(q, call.args[1]) =>
                  SameValue(Value(q), _toType(HeldValue(At(_events, Len(_events)), q)))

\* cancelScheduledValues(t) removed an event and left a TargetApproach last
C3_Witness ==
    /\ Made("cancelScheduledValues")
    /\ Len(_events) < Len(call.pre.events)
    /\ _events # <<>>
    /\ _events[Len(_events)].type = "setTargetAtTime"

-----------------------------------------------------------------------------
\* the methods that schedule
SchedulingOps ==
    {"setValueAtTime", "linearRampToValueAtTime", "exponentialRampToValueAtTime",
     "setTargetAtTime", "setValueCurveAtTime", "cancelScheduledValues",
     "cancelAndHoldAtTime", "linearRampTo", "exponentialRampTo", "targetRampTo",
     "value"}

\* C4: a call of a scheduling method with a value or a time that is not finite
\* fails, with the store, initialValue and the commands the sink has received
\* exactly as before the call; a later sample of setValueCurveAtTime, the
\* target of a ramp-to helper and the value assigned to `value` included.
C4_InvalidCallChangesNothing ==
    (/\ call.op \in SchedulingOps
     /\ \E i \in 1..Len(call.args) : ~isFinite(call.args[i])) =>
        /\ call.threw
        /\ _events = call.pre.events
        /\ _initialValue = call.pre.initialValue
        /\ call.cmds = <<>>

\* the methods that validate before their first store or sink step
SingleStepOps ==
    {"setValueAtTime", "linearRampToValueAtTime", "exponentialRampToValueAtTime",
     "setTargetAtTime", "cancelScheduledValues", "cancelAndHoldAtTime"}

\* C4, what the code keeps of it: the same for the calls of the methods that
\* do not schedule through other methods.
C4_InvalidSingleStepCallChangesNothing ==
    (/\ call.op \in SingleStepOps
     /\ \E i \in 1..Len(call.args) : ~isFinite(call.args[i])) =>
        /\ call.threw
        /\ _events = call.pre.events
        /\ _initialValue = call.pre.initialValue
        /\ call.cmds = <<>>

-----------------------------------------------------------------------------
\* the steps of a trace are in order: some validation precedes every store
\* and sink step, and a store step for the same event precedes every sink step
InOrder(trace) ==
    \A i \in 1..Len(trace) :
        /\ trace[i].step # "validate" =>
              \E j \in 1..(i - 1) : trace[j].step = "validate"
        /\ trace[i].step = "sink" =>
              \E j \in 1..(i - 1) :
                  /\ trace[j].step = "store"
                  /\ trace[j].type = trace[i].type
                  /\ trace[j].time = trace[i].time

\* C5 as stated: within a call of setValueAtTime, of a ramp, of
\* setTargetAtTime, of cancelScheduledValues or of cancelAndHoldAtTime the
\* steps come in the order validation, store mutation, sink command.
C5_ValidateStoreSink ==
    call.op \in {"setValueAtTime", "linearRampToValueAtTime",
                 "exponentialRampToValueAtTime", "setTargetAtTime",
                 "cancelScheduledValues", "cancelAndHoldAtTime"}
        => InOrder(call.trace)

\* C5 amended: the order validation, store mutation, sink command holds
\* within setValueAtTime, both ramps, setTargetAtTime and
\* cancelScheduledValues.  cancelAndHoldAtTime validates first, then sends
\* cancelScheduledValues(t) to the sink before it touches the store; the
\* steps after that command are in order again.
C5_ValidateStoreSinkButHold ==
    /\ call.op \in {"setValueAtTime", "linearRampToValueAtTime",
                    "exponentialRampToValueAtTime", "setTargetAtTime",
                    "cancelScheduledValues"}
          => /\ InOrder(call.trace)
             /\ ~call.threw => Len(call.trace) >= 3
    /\ (call.op = "cancelAndHoldAtTime" /\ call.trace # <<>>)
          => /\ call.trace[1].step = "validate"
             /\ call.trace[2] = [step |-> "sink", type |-> "cancelScheduledValues",
                                 time |-> call.args[1]]
             /\ InOrder(<<call.trace[1]>> \o SubSeq(call.trace, 3, Len(call.trace)))

\* cancelAndHoldAtTime returned after it cancelled a ramp and scheduled the
\* ramp that ends at t
C5_Witness ==
    /\ Made("cancelAndHoldAtTime")
    /\ \E i \in 1..Len(call.trace) :
          call.trace[i].step = "sink" /\ call.trace[i].type = "linearRampToValueAtTime"

-----------------------------------------------------------------------------
\* the number of occurrences of the event in the schedule
Count(sched, event) == Cardinality({i \in 1..Len(sched) : sched[i] = event})

\* two schedules hold the same events, each as many times
SameEvents(a, b) ==
    /\ Len(a) = Len(b)
    /\ \A i \in 1..Len(a) : Count(a, a[i]) = Count(b, a[i])

\* C6: after every completed operation the multiset of (kind, time, raw
\* value, timeConstant) events of the store equals that of the sink's
\* schedule.
C6_StoreMirrorsSink == ~call.threw => SameEvents(_events, _param)

\* C6, what the code keeps of it: a call of a method that does not schedule
\* through other methods takes store and sink from the same events to
\* different events only if it is cancelAndHoldAtTime(t) with an event at t.
C6_OnlyHoldAtEventBreaksMirror ==
    [][(/\ SameEvents(_events, _param)
        /\ ~SameEvents(_events', _param')
        /\ call'.op \in SingleStepOps) =>
           /\ call'.op = "cancelAndHoldAtTime"
           /\ HasEventAt(_events, call'.args[1])]_vars

-----------------------------------------------------------------------------
\* the events of the store tl with a time <= t
UpTo(tl, t) == SubSeq(tl, 1, SearchLe(tl, t))

-----------------------------------------------------------------------------
\* the events i and i + 1 of the store are a SetValue or a ramp at t0 and a
\* LinearRamp at a later t1
LinearSegment(i) ==
    /\ _events[i].type \in {"setValueAtTime", "linearRampToValueAtTime",
                            "exponentialRampToValueAtTime"}
    /\ _events[i + 1].type = "linearRampToValueAtTime"
    /\ Lt(_events[i].time, _events[i + 1].time)

\* the middle of the segment and the value half way
MidTime(i) == Div(Add(_events[i].time, _events[i + 1].time), Two)
MidValue(i) == Div(Add(_events[i].value, _events[i + 1].value), Two)

\* C8 as stated: with SetValue(v0) at t0 immediately followed by
\* LinearRamp(v1) at t1 > t0, getValueAtTime is v0 at t0, v1 at t1,
\* (v0 + v1) / 2 at (t0 + t1) / 2, and v1 at every t >= t1 that precedes any
\* later event; the same when the event at t0 is itself a ramp.
C8_LinearRampExact ==
    \A i \in 1..(Len(_events) - 1) :
        LinearSegment(i) =>
            /\ SameValue(Value(_events[i].time), _toType(_events[i].value))
            /\ SameValue(Value(_events[i + 1].time), _toType(_events[i + 1].value))
            /\ SameValue(Value(MidTime(i)), _toType(MidValue(i)))
            /\ \A q \in QueryTimes :
                  (/\ Ge(q, _events[i + 1].time)
                   /\ \A j \in (i + 2)..Len(_events) : Lt(q, _events[j].time))
                      => SameValue(Value(q), _toType(_events[i + 1].value))

\* C8 amended: with SetValue(v0) at t0 >= 0 immediately followed by
\* LinearRamp(v1) at t1 > t0, no other event recorded at t1 after the ramp,
\* getValueAtTime is v0 at t0, v1 at t1, (v0 + v1) / 2 at (t0 + t1) / 2, and v1
\* at every t >= t1 that precedes any later event when the next event is not
\* a ramp; the same when the event at t0 is itself a ramp.
C8_LinearRampExactFromZero ==
    \A i \in 1..(Len(_events) - 1) :
        (/\ LinearSegment(i)
         /\ Ge(_events[i].time, Zero)
         /\ \A j \in (i + 2)..Len(_events) : Lt(_events[i + 1].time, _events[j].time)) =>
            /\ SameValue(Value(_events[i].time), _toType(_events[i].value))
            /\ SameValue(Value(_events[i + 1].time), _toType(_events[i + 1].value))
            /\ SameValue(Value(MidTime(i)), _toType(MidValue(i)))
            /\ \A q \in QueryTimes :
                  (/\ Ge(q, _events[i + 1].time)
                   /\ \A j \in (i + 2)..Len(_events) : Lt(q, _events[j].time)
                   /\ ~IsRamp(At(_events, i + 2)))
                      => SameValue(Value(q), _toType(_events[i + 1].value))

\* the store holds a SetValue, a LinearRamp to another value and a later
\* event that is not a ramp, with query times in the segment and after it
C8_Witness ==
    /\ Len(_events) = 3
    /\ LinearSegment(1)
    /\ _events[1].type = "setValueAtTime"
    /\ _events[1].value # _events[2].value
    /\ Ge(_events[1].time, Zero)
    /\ Lt(_events[2].time, _events[3].time)
    /\ ~IsRamp(_events[3])
    /\ MidTime(1) \in QueryTimes

\* the store holds a LinearRamp followed by a LinearRamp to another value
C8_WitnessRamp ==
    /\ Len(_events) >= 2
    /\ LinearSegment(1)
    /\ _events[1].type = "linearRampToValueAtTime"
    /\ _events[1].value # _events[2].value

-----------------------------------------------------------------------------
\* C9 as stated: getValueAtTime returns initialValue at every query time
\* strictly earlier than the earliest event of the store, negative query
\* times and events at negative times included, and at every time when the
\* store is empty.
C9_InitialValueBeforeFirstEvent ==
    \A q \in QueryTimes :
        (_events = <<>> \/ Lt(q, _events[1].time))
            => SameValue(Value(q), _toType(_initialValue))

\* C9 amended: getValueAtTime returns initialValue at every query time t such
\* that max(t, 0) is strictly earlier than the earliest event of the store,
\* and at every time when the store is empty.
C9_InitialValueBeforeFirstEventFromZero ==
    \A q \in QueryTimes :
        (_events = <<>> \/ Lt(MathMax(q, Zero), _events[1].time))
            => SameValue(Value(q), _toType(_initialValue))

\* the store begins at a time later than 0 with an event of another value
\* than initialValue, a ramp following it
C9_Witness ==
    /\ Len(_events) >= 2
    /\ Gt(_events[1].time, Zero)
    /\ _events[1].value # _initialValue
    /\ IsRamp(_events[2])

-----------------------------------------------------------------------------
\* the SetValue at the ramp point the call left: for setRampPoint the last
\* event of the store, for linearRampTo and exponentialRampTo the event
\* before the ramp
RampPointEvent ==
    IF call.op = "setRampPoint" THEN At(_events, Len(_events))
    ELSE At(_events, Len(_events) - 1)

\* the value in effect at the ramp point before the call, as the sink has it
HeldBefore == _fromType(ValueBefore(call.args[IF call.op = "setRampPoint" THEN 1 ELSE 3]))

RampPointTime == toSeconds(call.args[IF call.op = "setRampPoint" THEN 1 ELSE 3])

\* C10 as stated: setRampPoint(time) leaves a SetValue at time holding the
\* value that was in effect at time, a raw value of exactly 0 replaced by
\* _minOutput when, and only when, the ramp about to follow is exponential;
\* after linearRampTo(v, rampTime, s) with the value 0 in effect at s,
\* getValueAtTime(s) is 0.
C10_ZeroReplacedBeforeExponentialOnly ==
    /\ Made("exponentialRampTo") =>
          RampPointEvent = Event("setValueAtTime", RampPointTime,
                                 IF Eq(HeldBefore, Zero) THEN _minOutput ELSE HeldBefore,
                                 Zero)
    /\ (Made("setRampPoint") \/ Made("linearRampTo")) =>
          RampPointEvent = Event("setValueAtTime", RampPointTime, HeldBefore, Zero)
    /\ (Made("linearRampTo") /\ Eq(HeldBefore, Zero) /\ Gt(call.args[2], Zero)) =>
          SameValue(Value(call.args[3]), _toType(Zero))

\* C10 amended: setRampPoint(time) leaves a SetValue at time holding the
\* value that was in effect at time, a raw value of exactly 0 replaced by
\* _minOutput whatever follows; after linearRampTo(v, rampTime, s) with
\* rampTime > 0 and the value 0 in effect at s, getValueAtTime(s) is
\* _minOutput.
C10_ZeroReplacedAlways ==
    /\ (Made("setRampPoint") \/ Made("linearRampTo") \/ Made("exponentialRampTo")) =>
          RampPointEvent = Event("setValueAtTime", RampPointTime,
                                 IF Eq(HeldBefore, Zero) THEN _minOutput ELSE HeldBefore,
                                 Zero)
    /\ (Made("linearRampTo") /\ Eq(HeldBefore, Zero) /\ Gt(call.args[2], Zero)) =>
          SameValue(Value(call.args[3]), _toType(_minOutput))

\* linearRampTo(v, rampTime, s) returned, rampTime > 0, the value in effect
\* at s having been 0 on a store with events
C10_Witness ==
    /\ Made("linearRampTo")
    /\ Eq(HeldBefore, Zero)
    /\ Gt(call.args[2], Zero)
    /\ call.pre.events # <<>>

-----------------------------------------------------------------------------
\* every ExponentialRamp of the schedule has a value >= _minOutput
RampsFloored(sched) ==
    \A i \in 1..Len(sched) :
        sched[i].type = "exponentialRampToValueAtTime" => Ge(sched[i].value, _minOutput)

\* C11: in every reachable state every ExponentialRamp of the store, and of
\* the sink's schedule, has a raw value >= _minOutput; a call
\* exponentialRampToValueAtTime(v, t) with a raw value <= 0 records and
\* forwards _minOutput; so does the ramp cancelAndHoldAtTime records again
\* when it cuts an exponential ramp.
C11_ExponentialRampsFloored ==
    /\ RampsFloored(_events)
    /\ RampsFloored(_param)
    /\ (Made("exponentialRampToValueAtTime") /\ Le(_fromType(call.args[1]), Zero)) =>
          /\ TimelineGet(_events, call.args[2]) =
                 Event("exponentialRampToValueAtTime", call.args[2], _minOutput, Zero)
          /\ call.cmds =
                 <<Event("exponentialRampToValueAtTime", call.args[2], _minOutput, Zero)>>
    /\ Made("cancelAndHoldAtTime") =>
          \A i \in 1..Len(call.cmds) :
              call.cmds[i].type = "exponentialRampToValueAtTime" =>
                  /\ call.cmds[i].value = MathMax(_minOutput, _fromType(ValueBefore(call.args[1])))
                  /\ \E j \in 1..Len(_events) : _events[j] = call.cmds[i]

\* cancelAndHoldAtTime(t) cut an exponential ramp where the value was 0 and
\* recorded the ramp that ends at t with _minOutput
C11_Witness ==
    /\ Made("cancelAndHoldAtTime")
    /\ Eq(ValueBefore(call.args[1]), Zero)
    /\ \E i \in 1..Len(_events) :
          _events[i] = Event("exponentialRampToValueAtTime", call.args[1], _minOutput, Zero)

-----------------------------------------------------------------------------
ReadingOps == {"getValueAtTime", "get value"}

-----------------------------------------------------------------------------
\* C13: after value = v at now (the time the SetValue is recorded at), the
\* store holds no event later than now, the event in effect at now is
\* SetValue(v), and getValueAtTime(t) is v for every t >= now.
C13_ValueSetFromNow ==
    Made("value") =>
        /\ TimelineGetAfter(_events, call.args[3]) = null
        /\ TimelineGet(_events, call.args[3]) =
              Event("setValueAtTime", call.args[3], call.args[1], Zero)
        /\ \A q \in QueryTimes : Ge(q, call.args[3]) => Value(q) = call.args[1]

\* C13, amended: after value = v, with now the second reading of the clock
\* (the first being the same or earlier), the store holds no event later
\* than now, the event in effect at now is the SetValue of v converted to
\* the sink's domain, and getValueAtTime(t) is that value converted back
\* for every t >= now.
C13_ValueSetFromNowInUnit ==
    Made("value") =>
        /\ TimelineGetAfter(_events, call.args[3]) = null
        /\ TimelineGet(_events, call.args[3]) =
              Event("setValueAtTime", call.args[3], _fromType(call.args[1]), Zero)
        /\ \A q \in QueryTimes :
              Ge(q, call.args[3]) => Value(q) = _toType(_fromType(call.args[1]))

\* the clock advanced between the two readings, and an event later than the
\* second reading was scheduled
C13_Witness ==
    /\ Made("value")
    /\ Lt(call.args[2], call.args[3])
    /\ \E i \in 1..Len(call.pre.events) : Gt(call.pre.events[i].time, call.args[3])

-----------------------------------------------------------------------------
\* the arguments of the last call, of setValueCurveAtTime
CurveValues == SubSeq(call.args, 1, Len(call.args) - 3)
CurveStart == call.args[Len(call.args) - 2]
CurveDuration == call.args[Len(call.args) - 1]
CurveScaling == call.args[Len(call.args)]

\* the time of sample i, counted from 1
CurveTime(i) ==
    Add(CurveStart, Mul(Num(i - 1), Div(CurveDuration, Num(Len(CurveValues) - 1))))

\* sample i scaled
CurveScaled(i) == Mul(CurveValues[i], CurveScaling)

\* sample i scaled in the sink's domain, then as the unit holds it
CurveScaledInUnit(i) == _fromType(_toType(Mul(_fromType(CurveValues[i]), CurveScaling)))

\* a is b with some of its elements left out
RECURSIVE IsSubSeq(_, _)
IsSubSeq(a, b) ==
    IF a = <<>> THEN TRUE
    ELSE IF b = <<>> THEN FALSE
    ELSE IF Head(a) = Head(b) /\ IsSubSeq(Tail(a), Tail(b)) THEN TRUE
    ELSE IsSubSeq(a, Tail(b))

\* C14: setValueCurveAtTime(values, startTime, duration, scaling) with n
\* samples records n events: a SetValue at startTime with the raw value
\* values[0] * scaling, then LinearRamps at startTime + i * duration / (n - 1)
\* with the raw values values[i] * scaling, in that order in store and sink;
\* on an empty schedule getValueAtTime is the scaled sample at each sample
\* time and the linear interpolation of the two nearest between them.
C14_CurveRecorded ==
    Made("setValueCurveAtTime") =>
        /\ call.cmds =
              [i \in 1..Len(CurveValues) |->
                  Event(IF i = 1 THEN "setValueAtTime" ELSE "linearRampToValueAtTime",
                        CurveTime(i), CurveScaled(i), Zero)]
        /\ Len(_events) = Len(call.pre.events) + Len(CurveValues)
        /\ IsSubSeq(call.cmds, _events)
        /\ IsSubSeq(call.pre.events, _events)
        /\ call.pre.events = <<>> =>
              /\ \A i \in 1..Len(CurveValues) :
                    SameValue(Value(CurveTime(i)), CurveScaled(i))
              /\ \A i \in 1..(Len(CurveValues) - 1) :
                    SameValue(Value(Div(Add(CurveTime(i), CurveTime(i + 1)), Two)),
                              Div(Add(CurveScaled(i), CurveScaled(i + 1)), Two))

\* C14, amended: the same with each raw value, values[i] * scaling, clamped
\* to the range of the unit.
C14_CurveRecordedInUnit ==
    Made("setValueCurveAtTime") =>
        /\ call.cmds =
              [i \in 1..Len(CurveValues) |->
                  Event(IF i = 1 THEN "setValueAtTime" ELSE "linearRampToValueAtTime",
                        CurveTime(i), CurveScaledInUnit(i), Zero)]
        /\ Len(_events) = Len(call.pre.events) + Len(CurveValues)
        /\ IsSubSeq(call.cmds, _events)
        /\ IsSubSeq(call.pre.events, _events)
        /\ call.pre.events = <<>> =>
              /\ \A i \in 1..Len(CurveValues) :
                    SameValue(Value(CurveTime(i)), _toType(CurveScaledInUnit(i)))
              /\ \A i \in 1..(Len(CurveValues) - 1) :
                    SameValue(Value(Div(Add(CurveTime(i), CurveTime(i + 1)), Two)),
                              _toType(Div(Add(CurveScaledInUnit(i), CurveScaledInUnit(i + 1)),
                                          Two)))

\* setValueCurveAtTime([0, 1, 0], 0, 2, 1) on an empty schedule: 0.5 at 0.5
\* and at 1.5
C14_Witness ==
    /\ Made("setValueCurveAtTime")
    /\ call.args = <<Zero, One, Zero, Zero, Two, One>>
    /\ call.pre.events = <<>>
    /\ Len(_events) = 3
    /\ Value(Frac(1, 2)) = Frac(1, 2)
    /\ Value(Frac(3, 2)) = Frac(1, 2)

-----------------------------------------------------------------------------
\* the last call was an exponential approach, or a ramp made by targetRampTo
\* or linearRampTo, with a ramp time above 0, and returned
MadeApproach == Made("exponentialApproachValueAtTime") /\ Gt(call.args[3], Zero)
MadeRampTo == call.op \in {"targetRampTo", "linearRampTo"} /\ ~call.threw /\ Gt(call.args[2], Zero)

\* the time the last call's ramp arrives at: time + rampTime
ArrivalTime ==
    IF call.op = "exponentialApproachValueAtTime" THEN Add(call.args[2], call.args[3])
    ELSE Add(call.args[3], call.args[2])

\* the time of the hold of the last call, an exponential approach
HoldTime == Add(call.args[2], Mul(call.args[3], Frac(9, 10)))

\* C15: after exponentialApproachValueAtTime(value, time, rampTime) with
\* rampTime > 0 the store ends with a TargetApproach at time, a SetValue at
\* time + 0.9 * rampTime and a LinearRamp(value) at time + rampTime, with
\* nothing later, and getValueAtTime(t) is value for every t >= time +
\* rampTime; targetRampTo and linearRampTo arrive the same way at startTime
\* + rampTime.
C15_ApproachArrives ==
    /\ MadeApproach =>
          /\ Len(_events) >= 3
          /\ _events[Len(_events) - 2].type = "setTargetAtTime"
          /\ _events[Len(_events) - 2].time = call.args[2]
          /\ _events[Len(_events) - 1].type = "setValueAtTime"
          /\ _events[Len(_events) - 1].time = HoldTime
          /\ _events[Len(_events)] =
                Event("linearRampToValueAtTime", ArrivalTime, call.args[1], Zero)
    /\ (MadeApproach \/ MadeRampTo) =>
          \A q \in QueryTimes : Ge(q, ArrivalTime) => SameValue(Value(q), call.args[1])

\* C15, amended: after exponentialApproachValueAtTime(value, time, rampTime)
\* with rampTime > 0 the store holds a TargetApproach at time with the
\* derived time constant, and ends with a SetValue at time + 0.9 * rampTime
\* and the LinearRamp at time + rampTime to value as the unit holds it;
\* getValueAtTime(t) is that value for every t >= time + rampTime, as it is
\* after targetRampTo and linearRampTo for t >= startTime + rampTime.
C15_ApproachArrivesInUnit ==
    /\ MadeApproach =>
          /\ Len(_events) >= 3
          /\ \E i \in 1..(Len(_events) - 2) :
                _events[i] = Event("setTargetAtTime", call.args[2], _fromType(call.args[1]),
                                   TimeConstantOf(call.args[3]))
          /\ _events[Len(_events) - 1].type = "setValueAtTime"
          /\ _events[Len(_events) - 1].time = HoldTime
          /\ _events[Len(_events)] =
                Event("linearRampToValueAtTime", ArrivalTime, _fromType(call.args[1]), Zero)
    /\ (MadeApproach \/ MadeRampTo) =>
          \A q \in QueryTimes :
              Ge(q, ArrivalTime) => SameValue(Value(q), _toType(_fromType(call.args[1])))

\* an exponential approach over a schedule with an event between time and
\* the hold
C15_Witness ==
    /\ MadeApproach
    /\ \E i \in 1..Len(_events) :
          Gt(_events[i].time, call.args[2]) /\ Lt(_events[i].time, HoldTime)

-----------------------------------------------------------------------------
\* C16: the unit conversion is applied, in both directions, only while
\* convert is set and overridden is not: while overridden is set or convert
\* is not, no value is converted either way, and after setValueAtTime(v, t)
\* getValueAtTime(t) is v, unconverted, whatever the unit.
C16_NoConversionWhenOverridden ==
    (overridden \/ ~convert) =>
        /\ \A v \in AllValues : _fromType(v) = v /\ _toType(v) = v
        /\ (Made("setValueAtTime") /\ Ge(call.args[2], Zero)) =>
              Value(call.args[2]) = call.args[1]

\* what does hold of C16: a decibels Param that converts and is not
\* overridden stores the gain of the value set and reads the value back;
\* while convert is not set no value is converted.
C16_ConversionWhenNotOverridden ==
    /\ (convert /\ ~overridden /\ units = "decibels" /\ Made("setValueAtTime")
          /\ Ge(call.args[2], Zero)) =>
            /\ TimelineGet(_events, call.args[2]).value = dbToGain(call.args[1])
            /\ Value(call.args[2]) = call.args[1]
    /\ ~convert =>
          /\ \A v \in AllValues : _fromType(v) = v /\ _toType(v) = v
          /\ (Made("setValueAtTime") /\ Ge(call.args[2], Zero)) =>
                Value(call.args[2]) = call.args[1]

-----------------------------------------------------------------------------
\* the event in effect at the time of the last call, an apply
ApplyPrevious == TimelineGet(_events, call.args[1])

ApplyOnTarget == ApplyPrevious # null /\ ApplyPrevious.type = "setTargetAtTime"

\* the end of the decay an apply approximates: the time of the next event,
\* now + 2 where there is none
ApplyEnd ==
    IF TimelineGetAfter(_events, call.args[1]) = null THEN Add(call.args[1], Two)
    ELSE TimelineGetAfter(_events, call.args[1]).time

\* the number of commands an apply sends before those of the later events
ApplyLead == Len(call.result) - Len(TimelineForEachAfter(_events, call.args[1]))

\* what an apply does apart from the approximation: it changes nothing of
\* the Param, sends setValueAtTime(getValueAtTime(now), now) first, and
\* last one command per event later than now, in order, with its fields
ApplyFrame ==
    /\ _events = call.pre.events
    /\ _initialValue = call.pre.initialValue
    /\ _param = call.pre.param
    /\ call.cmds = <<>>
    /\ call.result[1] = Event("setValueAtTime", call.args[1], Value(call.args[1]), Zero)
    /\ ApplyLead >= 1
    /\ SubSeq(call.result, ApplyLead + 1, Len(call.result)) =
          TimelineForEachAfter(_events, call.args[1])
    /\ \A i \in (ApplyLead + 1)..Len(call.result) : Gt(call.result[i].time, call.args[1])
    /\ \A i \in (ApplyLead + 1)..(Len(call.result) - 1) :
          Le(call.result[i].time, call.result[i + 1].time)

\* command i of the last call, an apply, is the linear ramp of step k
ApplyRampAt(i, k) ==
    /\ call.result[i].type = "linearRampToValueAtTime"
    /\ call.result[i].time =
          Add(call.args[1], Mul(Num(k), Div(Sub(ApplyEnd, call.args[1]), Num(10))))

\* C17: apply(target) at now sends target, in order, one
\* setValueAtTime(getValueAtTime(now), now); then, only if the event in
\* effect at now is a TargetApproach, exactly ten linear ramps at
\* now + k * (endTime - now) / 10 for k = 0..9, endTime being the time of
\* the next event or now + 2; then one command per stored event later than
\* now, earliest first, with the event's fields; the Param's own store,
\* initialValue and sink are as before.
C17_ApplyReplays ==
    call.op = "apply" =>
        /\ ApplyFrame
        /\ ApplyLead = IF ApplyOnTarget THEN 11 ELSE 1
        /\ \A k \in 0..(ApplyLead - 2) : ApplyRampAt(k + 2, k)

\* what does hold of C17: the ramps are ten or eleven, the eleventh at
\* endTime but for the rounding
C17_ApplyReplaysTenOrEleven ==
    call.op = "apply" =>
        /\ ApplyFrame
        /\ ApplyLead \in (IF ApplyOnTarget THEN {11, 12} ELSE {1})
        /\ \A k \in 0..(ApplyLead - 2) : ApplyRampAt(k + 2, k)

-----------------------------------------------------------------------------
\* every TargetApproach of the schedule has a finite time constant above 0
ConstantsPositive(sched) ==
    \A i \in 1..Len(sched) :
        sched[i].type = "setTargetAtTime" =>
            isFinite(sched[i].constant) /\ Gt(sched[i].constant, Zero)

\* C18: setTargetAtTime with a time constant that is 0, below 0 or not
\* finite fails with no event recorded and no command sent; every
\* TargetApproach of a reachable store has a finite time constant above 0,
\* those of exponentialApproachValueAtTime and targetRampTo included, whose
\* derived constant is 0 for rampTime 0.
C18_TimeConstantPositive ==
    /\ ConstantsPositive(_events)
    /\ ConstantsPositive(_param)
    /\ (call.op = "setTargetAtTime"
          /\ ~(isFinite(call.args[3]) /\ Gt(call.args[3], Zero))) =>
            /\ call.threw
            /\ _events = call.pre.events
            /\ _initialValue = call.pre.initialValue
            /\ call.cmds = <<>>
    /\ TimeConstantOf(Zero) = Zero
    /\ (call.op = "exponentialApproachValueAtTime" /\ call.args[3] = Zero) =>
          call.threw /\ _events = call.pre.events /\ call.cmds = <<>>
    /\ (call.op = "targetRampTo" /\ call.args[2] = Zero) =>
          /\ call.threw
          /\ \A i \in 1..Len(call.cmds) : call.cmds[i].type # "setTargetAtTime"

\* an exponential approach with rampTime 0 was refused on a store that
\* holds a TargetApproach
C18_Witness ==
    /\ call.op = "exponentialApproachValueAtTime"
    /\ call.args[3] = Zero
    /\ call.threw
    /\ \E i \in 1..Len(_events) : _events[i].type = "setTargetAtTime"

-----------------------------------------------------------------------------
\* the last call was a ramp made by one of the three methods, with a ramp
\* time above 0, and the value in effect at its startTime was not 0
RampToOps == {"linearRampTo", "exponentialRampTo", "targetRampTo"}

MadeRampFromValue(ops) ==
    /\ call.op \in ops
    /\ ~call.threw
    /\ Gt(call.args[2], Zero)
    /\ ~Eq(ValueBefore(call.args[3]), Zero)

\* C19: after linearRampTo, exponentialRampTo or targetRampTo(value,
\* rampTime, startTime) with rampTime > 0, called where the value in effect
\* at startTime is not 0, getValueAtTime(startTime) is what it was before
\* the call.
C19_RampStartsFromHeldValue ==
    MadeRampFromValue(RampToOps) =>
        SameValue(Value(call.args[3]), ValueBefore(call.args[3]))

\* what does hold of C19: linearRampTo and exponentialRampTo keep the value
\* at startTime
C19_LinearAndExponentialStartFromHeldValue ==
    MadeRampFromValue({"linearRampTo", "exponentialRampTo"}) =>
        SameValue(Value(call.args[3]), ValueBefore(call.args[3]))

-----------------------------------------------------------------------------
AddingOps ==
    {"setValueAtTime", "linearRampToValueAtTime", "exponentialRampToValueAtTime",
     "setTargetAtTime"}

\* the place of the event the last call added: the last one with a time <=
\* the time of the call
AddedAt == SearchLe(_events, call.cmds[1].time)

=============================================================================
